---- MODULE Spec2Model ----
(***************************************************************************)
(* Monte Carlo housing-affordability simulator                             *)
(* (src/src/monte_carlo_housing.py, class MonteCarloHousingSimulator).     *)
(*                                                                         *)
(* Units.  Money is in whole dollars.  Rates and fractions that the source *)
(* writes as decimals (0.065, 0.04, ...) are in basis points, 1 bp = 1e-4, *)
(* so 0.065 is 650.  Region multipliers and the affordability thresholds   *)
(* are in percent (1.35 is 135, 0.50 is 50).  Products are floored to the  *)
(* unit, where the source keeps a float.                                   *)
(*                                                                         *)
(* Randomness.  The source draws from numpy's process-wide generator, which *)
(* MonteCarloHousingSimulator.__init__ seeds.  The generator is modelled as *)
(* a deterministic generator with a small state (a linear congruential     *)
(* generator); what matters is kept: seeding fixes the whole stream, every *)
(* draw advances the one shared state, and nothing else does.  Each draw   *)
(* yields one of Levels equally likely quantiles of its distribution, so   *)
(* normal draws stay within about two standard deviations of the mean.     *)
(***************************************************************************)
EXTENDS Integers, Sequences, FiniteSets, TLC

VARIABLES
    rng,                 \* state of numpy's process-wide generator
    sims,                \* the MonteCarloHousingSimulator objects constructed so far
    pristine,            \* index of the simulator constructed last if nothing was drawn since, else 0
    caller,              \* what the calling program does: seeds, configs, how many objects and calls
    household,           \* the household record the caller passes
    num_simulations,     \* the trial count the caller passes
    time_horizon_years,  \* the horizon the caller passes
    pc,                  \* position inside the running call, "idle" when none runs
    call,                \* the running call: method, receiver, scenario name, comparison so far
    sim,                 \* loop variable of `for sim in range(num_simulations)`
    loc,                 \* the local variables of the trial loop body
    arr,                 \* the per-trial numpy arrays of the running method
    draws,               \* number of draws of each kind made by the running call
    result,              \* what the last finished call returned or raised
    history              \* the finished calls, in order

vars == <<rng, sims, pristine, caller, household, num_simulations, time_horizon_years,
          pc, call, sim, loc, arr, draws, result, history>>

----------------------------------------------------------------------------
(* Bounds of the model *)

MaxTrials == 2

MaxHorizon == 2

MaxSims == 2

MaxCalls == 2

----------------------------------------------------------------------------
(* Arithmetic *)

BP == 10000

S6 == 1000000

Levels == 16

Min(a, b) == IF a <= b THEN a ELSE b

Max(a, b) == IF a >= b THEN a ELSE b

\* np.clip(x, lo, hi)
Clip(x, lo, hi) == Max(lo, Min(x, hi))

\* floor(x * n / d) for x >= 0, d > 0, without forming x * n
MulDiv(x, n, d) == (x \div d) * n + ((x % d) * n) \div d

\* x *= (1 + c) with c in basis points
Grow(x, c) == x + MulDiv(x, c, BP)

\* floor(a * b / 10^6): product of an amount and a 10^-6 fixed-point number
FxMul(a, b) ==
    LET a1 == a \div 1000
        a0 == a % 1000
        b1 == b \div 1000
        b0 == b % 1000
    IN  a1 * b1 + (a1 * b0 + a0 * b1 + (a0 * b0) \div 1000) \div 1000

RECURSIVE FxPow(_, _)
\* base ** n in 10^-6 fixed point, by repeated squaring
FxPow(base, n) ==
    IF n = 0 THEN S6
    ELSE LET h == FxPow(base, n \div 2)
             hh == FxMul(h, h)
         IN  IF n % 2 = 0 THEN hh ELSE FxMul(hh, base)

RECURSIVE ISqrtIn(_, _, _)
\* largest k in lo..hi with k * k <= n, by bisection
ISqrtIn(n, lo, hi) ==
    IF lo = hi THEN lo
    ELSE LET mid == (lo + hi + 1) \div 2
         IN  IF mid * mid <= n THEN ISqrtIn(n, mid, hi) ELSE ISqrtIn(n, lo, mid - 1)

\* floor of the square root of n, 0 <= n < 2^30
ISqrt(n) == ISqrtIn(n, 0, 32767)

RECURSIVE SumSeq(_)
SumSeq(s) == IF s = <<>> THEN 0 ELSE Head(s) + SumSeq(Tail(s))

RECURSIVE SelectIdx(_, _, _)
\* a[mask] of numpy: the entries of a whose mask entry is TRUE, in order
SelectIdx(a, mask, i) ==
    IF i > Len(a) THEN <<>>
    ELSE IF mask[i] THEN <<a[i]>> \o SelectIdx(a, mask, i + 1)
         ELSE SelectIdx(a, mask, i + 1)

Select(a, mask) == SelectIdx(a, mask, 1)

Not(mask) == [i \in DOMAIN mask |-> ~mask[i]]

Count(mask) == Cardinality({i \in DOMAIN mask : mask[i]})

\* ndarray.mean(), floored to the dollar
Mean(a) == SumSeq(a) \div Len(a)

\* np.percentile(a, q): linear interpolation between the two nearest ranks
Percentile(a, q) ==
    LET s == SortSeq(a, LAMBDA x, y : x < y)
        pos == (Len(a) - 1) * q
        lo == pos \div 100 + 1
        hi == Min(lo + 1, Len(a))
        fr == pos % 100
    IN  s[lo] + ((s[hi] - s[lo]) * fr) \div 100

\* np.median(a)
Median(a) == Percentile(a, 50)

----------------------------------------------------------------------------
(* The process-wide generator *)

RngModulus == 65536

RngMultiplier == 25173

RngIncrement == 13849

\* np.random.seed(random_seed)
SeedState(random_seed) == (random_seed * 7919 + 104729) % RngModulus

\* the state after one draw
NextRng(s) == (RngMultiplier * s + RngIncrement) % RngModulus

\* the state after k draws
RECURSIVE Advance(_, _)
Advance(s, k) == IF k = 0 THEN s ELSE Advance(NextRng(s), k - 1)

\* the quantile index, 0 .. Levels-1, that a draw in state s yields
Raw(s) == NextRng(s) \div (RngModulus \div Levels)

\* the quantile index of the k-th draw from state s, k = 1, 2, ...
Draw(s, k) == Raw(Advance(s, k - 1))

\* standard normal quantiles at (u + 1/2) / Levels, in hundredths
NormalQuantile ==
    <<-186, -132, -101, -78, -58, -40, -24, -8, 8, 24, 40, 58, 78, 101, 132, 186>>

\* np.random.normal(mean, std), mean and std in basis points
Normal(mean, std, u) == mean + (std * NormalQuantile[u + 1]) \div 100

\* np.random.uniform(low, high)
Uniform(low, high, u) == low + MulDiv(high - low, u, Levels)

\* np.random.triangular(left, mode, right): inverse-CDF sampling
Triangular(left, mode, right, u) ==
    LET base == right - left
        leftbase == mode - left
    IN  IF u * base <= leftbase * Levels
        THEN left + ISqrt((u * leftbase * base) \div Levels)
        ELSE right - ISqrt(((Levels - u) * (right - mode) * base) \div Levels)

\* np.random.random() < 0.3
DefaultDraw(u) == 10 * u < 3 * Levels

----------------------------------------------------------------------------
(* Scenario catalog and region adjustments *)

KeepRenting == "Keep Renting"

HousingScenarioParameters(name, pmin, pmax, down, rmean, rstd, tax, ins, hoa, maint, amean, astd, closing) ==
    [scenario_name |-> name, home_price_min |-> pmin, home_price_max |-> pmax,
     down_payment_pct |-> down, interest_rate_mean |-> rmean, interest_rate_std |-> rstd,
     property_tax_rate |-> tax, hurricane_insurance_annual |-> ins, hoa_monthly |-> hoa,
     maintenance_annual_pct |-> maint, appreciation_mean |-> amean,
     appreciation_std |-> astd, closing_costs_pct |-> closing]

\* self.scenarios; ScenarioOrder is the order of self.scenarios.keys()
ScenarioOrder ==
    <<KeepRenting, "Buy Starter Home", "Buy Standard Home", "Buy Premium Home">>

scenarios ==
    (KeepRenting :>
        HousingScenarioParameters(KeepRenting, 0, 0, 0, 0, 0, 0, 0, 0, 0, 0, 0, 0))
    @@ ("Buy Starter Home" :>
        HousingScenarioParameters("Buy Starter Home", 200000, 300000, 500, 650, 100,
                                  90, 3500, 150, 150, 400, 800, 300))
    @@ ("Buy Standard Home" :>
        HousingScenarioParameters("Buy Standard Home", 300000, 500000, 1000, 625, 100,
                                  90, 5500, 250, 150, 450, 1000, 300))
    @@ ("Buy Premium Home" :>
        HousingScenarioParameters("Buy Premium Home", 500000, 800000, 2000, 600, 80,
                                  90, 8500, 400, 200, 500, 1200, 300))

region_adjustments ==
    ("Miami-Dade" :> [price_multiplier |-> 135, insurance_multiplier |-> 140])
    @@ ("Tampa Bay" :> [price_multiplier |-> 110, insurance_multiplier |-> 120])
    @@ ("Orlando" :> [price_multiplier |-> 105, insurance_multiplier |-> 115])
    @@ ("Jacksonville" :> [price_multiplier |-> 95, insurance_multiplier |-> 110])
    @@ ("Southwest FL" :> [price_multiplier |-> 120, insurance_multiplier |-> 135])
    @@ ("Panhandle" :> [price_multiplier |-> 85, insurance_multiplier |-> 125])

\* self.region_adjustments.get(region, {1.0, 1.0})
RegionAdj(region) ==
    IF region \in DOMAIN region_adjustments
    THEN region_adjustments[region]
    ELSE [price_multiplier |-> 100, insurance_multiplier |-> 100]

----------------------------------------------------------------------------
(* What the caller passes *)

Household(id, income, savings, credit, rent, region) ==
    [household_id |-> id, annual_income |-> income, savings |-> savings,
     credit_score |-> credit, current_monthly_rent |-> rent, region |-> region]

\* Household records: all fields non-negative, credit score in 550..850.
\*   HH-A  savings below every entry cost (spec.md, Scenario A)
\*   HH-B  high income and savings (spec.md, Scenario B)
\*   HH-C  savings inside the range of entry costs, costs above the threshold
\*   HH-D  the lowest credit score with savings above the starter entry cost
\*   HH-Z  the zero household, in a region the table does not list
Households ==
    { Household("HH-A", 60000, 5000, 650, 1500, "Orlando"),
      Household("HH-B", 150000, 100000, 780, 2500, "Miami-Dade"),
      Household("HH-C", 45000, 18000, 600, 1300, "Panhandle"),
      Household("HH-D", 80000, 40000, 550, 1600, "Tampa Bay"),
      Household("HH-Z", 0, 0, 550, 0, "Keys") }

\* Scenario names a caller may pass; the last is not a catalog key.
ScenarioNames ==
    { ScenarioOrder[i] : i \in DOMAIN ScenarioOrder } \cup { "Buy Castle" }

Seeds == { 42, 7, 15, 536 }

\* __init__'s arguments after random_seed: the defaults, the conservative and
\* optimistic settings of test_slider_integration.py, the sliders' initial values
Config(growth, insurance, threshold) ==
    [income_growth |-> growth, insurance_increase |-> insurance,
     affordability_threshold |-> threshold]

DefaultConfig == Config(400, 800, 50)

Configs ==
    { DefaultConfig, Config(200, 1100, 43), Config(600, 500, 50), Config(300, 1500, 43) }

\* the conservative setting at the two ends 0.43 and 0.50 of the threshold
ThresholdConfigs == { Config(200, 1100, 43), Config(200, 1100, 50) }

----------------------------------------------------------------------------
(* State of a call *)

DrawKinds ==
    { "rent", "income", "price", "rate", "appreciation", "insurance", "maintenance",
      "default" }

NoDraws == [k \in DrawKinds |-> 0]

\* n more draws of kind k
Drawn(d, k, n) == [d EXCEPT ![k] = @ + n]

NoCall == [op |-> "none", self |-> 0, scenario |-> "", fresh |-> FALSE,
           queue |-> <<>>, comparison |-> <<>>]

EmptyArrays ==
    [final_rent |-> <<>>, total_paid |-> <<>>, affordability_months |-> <<>>,
     final_equity |-> <<>>, monthly_costs |-> <<>>, default_occurred |-> <<>>,
     months_solvent |-> <<>>,
     yearly_equity |-> <<>>, yearly_costs |-> <<>>, yearly_total_paid |-> <<>>]

NoLocals ==
    [state |-> "none", year |-> 0, month |-> 0,
     rent |-> 0, total_cost |-> 0, months_affordable |-> 0, income |-> 0,
     home_price |-> 0, down_payment |-> 0, closing_costs |-> 0, loan_amount |-> 0,
     interest_rate |-> 0, monthly_mortgage |-> 0, monthly_property_tax |-> 0,
     monthly_insurance |-> 0, monthly_hoa |-> 0, monthly_maintenance |-> 0,
     total_monthly |-> 0, current_home_value |-> 0, current_loan_balance |-> 0,
     total_costs |-> 0, cumulative_cost |-> 0,
     row_equity |-> <<>>, row_costs |-> <<>>, row_total_paid |-> <<>>]

NoResult == [status |-> "none"]

Frac(n, d) == [num |-> n, den |-> d]

Stats(a) ==
    [mean |-> Mean(a), median |-> Median(a),
     percentile_5 |-> Percentile(a, 5), percentile_95 |-> Percentile(a, 95)]

\* the receiver of the running call
Self == sims[call.self]

----------------------------------------------------------------------------
(* Construction *)

TypeOK ==
    /\ rng \in 0..(RngModulus - 1)
    /\ pristine \in 0..Len(sims)
    /\ num_simulations \in 1..MaxTrials
    /\ time_horizon_years \in 0..MaxHorizon
    /\ sim \in 0..num_simulations

RunArgs ==
    /\ household \in Households
    /\ num_simulations \in 1..MaxTrials
    /\ time_horizon_years \in 0..MaxHorizon

Idle ==
    /\ rng = 0
    /\ sims = <<>>
    /\ pristine = 0
    /\ pc = "idle"
    /\ call = NoCall
    /\ sim = 0
    /\ loc = NoLocals
    /\ arr = EmptyArrays
    /\ draws = NoDraws
    /\ result = NoResult
    /\ history = <<>>

\* A program that constructs one simulator and makes one call.
Init ==
    /\ Idle
    /\ RunArgs
    /\ caller = [seeds |-> Seeds, configs |-> Configs, sims |-> 1, calls |-> 1]

\* A program that constructs up to MaxSims simulators and makes up to MaxCalls calls.
InitSession ==
    /\ Idle
    /\ RunArgs
    /\ household.household_id = "HH-C"
    /\ caller = [seeds |-> {42, 7}, configs |-> {DefaultConfig},
                 sims |-> MaxSims, calls |-> MaxCalls]

\* MonteCarloHousingSimulator.__init__
Construct(random_seed, config) ==
    /\ pc = "idle"
    /\ Len(sims) < caller.sims
    /\ rng' = SeedState(random_seed)
    /\ sims' = Append(sims, [random_seed |-> random_seed] @@ config)
    /\ pristine' = Len(sims) + 1
    /\ UNCHANGED <<caller, household, num_simulations, time_horizon_years, pc, call,
                   sim, loc, arr, draws, result, history>>

----------------------------------------------------------------------------
(* Entering and leaving a call *)

Args == <<caller, household, num_simulations, time_horizon_years, sims>>

\* the method simulate_household dispatches to
StartPc(scenario) == IF scenario = KeepRenting THEN "rent_trial" ELSE "buy_trial"

Entry(op, self, scenario, value) ==
    [op |-> op, self |-> self, scenario |-> scenario, fresh |-> call.fresh,
     result |-> value]

\* the running method returns record rec
Return(rec) ==
    IF call.op = "compare_scenarios" /\ Len(call.queue) > 1
    THEN /\ call' = [call EXCEPT !.comparison = (call.scenario :> rec) @@ @,
                                 !.queue = Tail(@),
                                 !.scenario = call.queue[2]]
         /\ pc' = StartPc(call.queue[2])
         /\ sim' = 0
         /\ arr' = EmptyArrays
         /\ UNCHANGED <<result, history>>
    ELSE LET value == IF call.op = "compare_scenarios"
                      THEN (call.scenario :> rec) @@ call.comparison
                      ELSE rec
             res == [status |-> "ok", value |-> value]
         IN  /\ result' = res
             /\ history' = Append(history, Entry(call.op, call.self, call.scenario, res))
             /\ call' = NoCall
             /\ pc' = "idle"
             /\ sim' = 0
             /\ arr' = EmptyArrays

\* self.scenarios[scenario_name] raises KeyError: the call ends, nothing is returned
RaiseKeyError(op, self, scenario) ==
    LET res == [status |-> "KeyError", key |-> scenario]
    IN  /\ result' = res
        /\ history' = Append(history, [op |-> op, self |-> self, scenario |-> scenario,
                                       fresh |-> pristine = self, result |-> res])
        /\ UNCHANGED <<rng, pristine, pc, call, sim, loc, arr, draws>>

CanCall(self) ==
    /\ pc = "idle"
    /\ self \in DOMAIN sims
    /\ Len(history) < caller.calls

Begin(op, self, scenario, queue, start) ==
    /\ call' = [op |-> op, self |-> self, scenario |-> scenario,
                fresh |-> pristine = self, queue |-> queue, comparison |-> <<>>]
    /\ pristine' = 0
    /\ pc' = start
    /\ sim' = 0
    /\ arr' = EmptyArrays
    /\ draws' = NoDraws
    /\ UNCHANGED <<rng, loc, result, history>>

\* variant of InCatalog: the catalog lookup never fails
InCatalogAnyName(scenario_name) == TRUE

\* whether the lookup self.scenarios[scenario_name] finds a key
InCatalog(scenario_name) == scenario_name \in DOMAIN scenarios

\* simulate_household(household, scenario, num_simulations, time_horizon_years)
SimulateHousehold(self, scenario) ==
    /\ CanCall(self)
    /\ IF scenario = KeepRenting \/ InCatalog(scenario)
       THEN Begin("simulate_household", self, scenario, <<>>, StartPc(scenario))
       ELSE RaiseKeyError("simulate_household", self, scenario)
    /\ UNCHANGED Args

\* compare_scenarios(household, num_simulations, time_horizon_years)
CompareScenarios(self) ==
    /\ CanCall(self)
    /\ Begin("compare_scenarios", self, ScenarioOrder[1], ScenarioOrder,
             StartPc(ScenarioOrder[1]))
    /\ UNCHANGED Args

----------------------------------------------------------------------------
(* simulate_renting *)

\* (rent / monthly_income) <= 0.35 with monthly_income = income / 12; a zero
\* monthly income makes the quotient inf or nan, and the comparison false
RentAffordable(rent, income) ==
    IF income > 0 THEN rent * 1200 <= 35 * income
    ELSE IF income = 0 THEN FALSE
    ELSE rent * 1200 >= 35 * income

\* variant of AffordableMonthsThisYear: the month is accrued before the ratio
\* is tested, so the year of the break counts its first month
AffordableMonthsFirstCounted(rent, income, month) ==
    IF RentAffordable(rent, income) THEN 12 - month ELSE 1

RECURSIVE AffordableMonthsThisYear(_, _, _)
\* the month loop of the unaffordable branch: months counted before the break
AffordableMonthsThisYear(rent, income, month) ==
    IF month = 12 THEN 0
    ELSE IF RentAffordable(rent, income)
         THEN 1 + AffordableMonthsThisYear(rent, income, month + 1)
         ELSE 0

\* variant of RentStart: the solvent-month counter is initialised once, before
\* the trial loop, and carried from one trial to the next
RentStartStaleCounter(l, h) ==
    [l EXCEPT !.state = "Running", !.year = 0,
              !.rent = h.current_monthly_rent,
              !.total_cost = 0,
              !.income = h.annual_income]

\* variant of RentStart: income is read from the household once, before the
\* trial loop, and a trial goes on from the income the trial before it reached
RentStartStaleIncome(l, h) ==
    [l EXCEPT !.state = "Running", !.year = 0,
              !.rent = h.current_monthly_rent,
              !.total_cost = 0,
              !.months_affordable = 0,
              !.income = IF l.state = "none" THEN h.annual_income ELSE @]

\* the locals of a renting trial before the year loop
RentStart(l, h) ==
    [l EXCEPT !.state = "Running", !.year = 0,
              !.rent = h.current_monthly_rent,
              !.total_cost = 0,
              !.months_affordable = 0,
              !.income = h.annual_income]

RentTrialStart ==
    /\ pc = "rent_trial"
    /\ sim < num_simulations
    /\ loc' = RentStart(loc, household)
    /\ pc' = IF time_horizon_years > 0 THEN "rent_year" ELSE "rent_end"
    /\ UNCHANGED <<rng, sims, pristine, caller, household, num_simulations,
                   time_horizon_years, call, sim, arr, draws, result, history>>

\* variant of AfterRentYear: the `break` that ends the year loop is missing
AfterRentYearNoBreak(is_affordable, year, horizon) ==
    IF year + 1 < horizon THEN "rent_year" ELSE "rent_end"

\* where a renting trial goes after year number `year`: the year loop goes on
\* while the year was affordable, the else branch ends with `break`
AfterRentYear(is_affordable, year, horizon) ==
    IF is_affordable /\ year + 1 < horizon THEN "rent_year" ELSE "rent_end"

\* one iteration of `for year in range(time_horizon_years)`
RentYear ==
    /\ pc = "rent_year"
    /\ loc.year < time_horizon_years
    /\ LET rent_increase == Triangular(300, 500, 1000, Draw(rng, 1))
           rent == Grow(loc.rent, rent_increase)
           income_change == Normal(Self.income_growth, 800, Draw(rng, 2))
           income == Grow(loc.income, income_change)
           is_affordable == RentAffordable(rent, income)
           partial == AffordableMonthsThisYear(rent, income, 0)
       IN  /\ rng' = Advance(rng, 2)
           /\ draws' = Drawn(Drawn(draws, "rent", 1), "income", 1)
           /\ \/ /\ loc' = [loc EXCEPT
                       !.rent = rent,
                       !.income = income,
                       !.year = @ + 1,
                       !.months_affordable =
                           IF is_affordable THEN @ + 12 ELSE @ + partial,
                       !.total_cost =
                           IF is_affordable THEN @ + rent * 12 ELSE @ + partial * rent,
                       !.state = IF ~is_affordable THEN "BecameUnaffordable"
                                 ELSE IF loc.year + 1 = time_horizon_years
                                      THEN "HorizonCompleted" ELSE "Running"]
                 /\ pc' = AfterRentYear(is_affordable, loc.year, time_horizon_years)
                 /\ UNCHANGED <<call, sim, arr, result, history>>
              \/ \* rent / monthly_income on Python floats with monthly_income = 0.0
                 /\ income = 0
                 /\ loc' = [loc EXCEPT !.rent = rent, !.income = income]
                 /\ result' = [status |-> "ZeroDivisionError"]
                 /\ history' = Append(history, Entry(call.op, call.self, call.scenario,
                                                     [status |-> "ZeroDivisionError"]))
                 /\ call' = NoCall
                 /\ pc' = "idle"
                 /\ sim' = 0
                 /\ arr' = EmptyArrays
    /\ UNCHANGED <<sims, pristine, caller, household, num_simulations,
                   time_horizon_years>>

RentTrialEnd ==
    /\ pc = "rent_end"
    /\ arr' = [arr EXCEPT !.final_rent = Append(@, loc.rent),
                          !.total_paid = Append(@, loc.total_cost),
                          !.affordability_months = Append(@, loc.months_affordable)]
    /\ sim' = sim + 1
    /\ pc' = "rent_trial"
    /\ loc' = [loc EXCEPT !.state =
                   IF @ = "Running" THEN "HorizonCompleted" ELSE @]
    /\ UNCHANGED <<rng, sims, pristine, caller, household, num_simulations,
                   time_horizon_years, call, draws, result, history>>

\* variant of RentEquity: the statistics are taken from an array, the way the
\* other entries of the dictionary are
RentEquityFromArray(a) == Stats(a.final_rent)

\* 'equity_built' of simulate_renting: four literal zeros
RentEquity(a) == [mean |-> 0, median |-> 0, percentile_5 |-> 0, percentile_95 |-> 0]

\* the results dictionary of simulate_renting
RentResults(h, n, horizon, a) ==
    [household_id |-> h.household_id,
     scenario |-> KeepRenting,
     simulations |-> n,
     time_horizon_years |-> horizon,
     initial_monthly_cost |-> h.current_monthly_rent,
     final_monthly_cost |-> Stats(a.final_rent),
     total_cost_paid |-> Stats(a.total_paid),
     equity_built |-> RentEquity(a),
     probability_affordable |->
         Frac(Count([i \in DOMAIN a.affordability_months |->
                        a.affordability_months[i] = horizon * 12]), n),
     probability_unaffordable |->
         Frac(Count([i \in DOMAIN a.affordability_months |->
                        a.affordability_months[i] < horizon * 12]), n),
     mean_affordable_months |-> Mean(a.affordability_months)]

RentReturn ==
    /\ pc = "rent_trial"
    /\ sim = num_simulations
    /\ Return(RentResults(household, num_simulations, time_horizon_years, arr))
    /\ UNCHANGED <<rng, sims, pristine, caller, household, num_simulations,
                   time_horizon_years, loc, draws>>

----------------------------------------------------------------------------
(* simulate_buying *)

\* np.random.uniform(home_price_min, home_price_max) * price_multiplier
HomePrice(params, region_adj, u) ==
    MulDiv(Uniform(params.home_price_min, params.home_price_max, u),
           region_adj.price_multiplier, 100)

DownPayment(params, home_price) == MulDiv(home_price, params.down_payment_pct, BP)

ClosingCosts(params, home_price) == MulDiv(home_price, params.closing_costs_pct, BP)

\* variant of CannotEnter: the gate compares savings with the closing costs alone
CannotEnterClosingOnly(savings, down_payment, closing_costs) ==
    savings < closing_costs

\* savings < (down_payment + closing_costs)
CannotEnter(savings, down_payment, closing_costs) ==
    savings < down_payment + closing_costs

\* variant of FailedEntryEquity: a failed entry loses nothing
FailedEntryEquityNothingLost(savings, closing_costs) == 0

\* variant of FailedEntryEquity: the closing costs are lost whatever the savings
FailedEntryEquityUncapped(savings, closing_costs) == -closing_costs

\* -closing_costs if savings >= closing_costs else -savings
FailedEntryEquity(savings, closing_costs) ==
    IF savings >= closing_costs THEN -closing_costs ELSE -savings

\* variant of InterestRate: the drawn rate is used as it is, without np.clip
InterestRateUnclipped(params, credit_score, u) ==
    LET credit_adjustment == 750 - credit_score
    IN  Normal(params.interest_rate_mean + credit_adjustment,
               params.interest_rate_std, u)

\* np.clip(np.random.normal(mean + credit_adjustment, std), 0.03, 0.10)
InterestRate(params, credit_score, u) ==
    LET credit_adjustment == 750 - credit_score
    IN  Clip(Normal(params.interest_rate_mean + credit_adjustment,
                    params.interest_rate_std, u), 300, 1000)

\* interest_rate / 12 in 10^-6 fixed point
MonthlyRate(interest_rate) == (interest_rate * 100) \div 12

\* level payment of a 30-year mortgage
MonthlyMortgage(loan_amount, interest_rate) ==
    LET monthly_rate == MonthlyRate(interest_rate)
        num_payments == 30 * 12
        growth == FxPow(S6 + monthly_rate, num_payments)
    IN  IF monthly_rate > 0
        THEN (FxMul(loan_amount, FxMul(monthly_rate, growth)) * 1000)
                 \div ((growth - S6) \div 1000)
        ELSE loan_amount \div num_payments

\* (hurricane_insurance_annual * insurance_multiplier) / 12
InitialInsurance(params, region_adj) ==
    MulDiv(params.hurricane_insurance_annual, region_adj.insurance_multiplier, 100) \div 12

PropertyTax(params, value) == MulDiv(value, params.property_tax_rate, BP) \div 12

Maintenance(params, value) == MulDiv(value, params.maintenance_annual_pct, BP) \div 12

\* variant of HousingAffordable: the comparison with the threshold is reversed
HousingAffordableAbove(total_monthly, income, threshold) ==
    total_monthly * 1200 >= threshold * income

\* housing_ratio <= self.affordability_threshold, with
\* housing_ratio = total_monthly / (income / 12); a zero income makes it inf
HousingAffordable(total_monthly, income, threshold) ==
    IF income > 0 THEN total_monthly * 1200 <= threshold * income
    ELSE IF income = 0 THEN total_monthly < 0
    ELSE total_monthly * 1200 >= threshold * income

\* variant of Amortize: the payment covers no principal
AmortizeInterestOnly(balance, monthly_mortgage, interest_rate) == balance

\* variant of Amortize: the whole payment is taken off the balance
AmortizeWholePayment(balance, monthly_mortgage, interest_rate) ==
    balance - monthly_mortgage

\* current_loan_balance after one payment
Amortize(balance, monthly_mortgage, interest_rate) ==
    LET interest_payment == FxMul(balance, MonthlyRate(interest_rate))
        principal_payment == monthly_mortgage - interest_payment
    IN  balance - principal_payment

\* variant of DefaultedEquity: the share of the costs paid so far is left out
DefaultedEquityEntryOnly(down_payment, closing_costs, total_costs) ==
    -(down_payment + closing_costs)

\* -(down_payment + closing_costs + total_costs * 0.2)
DefaultedEquity(down_payment, closing_costs, total_costs) ==
    -(down_payment + closing_costs + total_costs \div 5)

\* current_home_value - max(0, current_loan_balance)
HomeEquity(current_home_value, current_loan_balance) ==
    current_home_value - Max(0, current_loan_balance)

\* variant of InitialTotalCosts: the closing costs are left out
InitialTotalCostsDownOnly(down_payment, closing_costs) == down_payment

\* total_costs = down_payment + closing_costs
InitialTotalCosts(down_payment, closing_costs) == down_payment + closing_costs

\* the locals of a trial that passed the entry gate, before the year loop
Purchase(l, h, params, region_adj, home_price, interest_rate) ==
    LET down_payment == DownPayment(params, home_price)
        closing_costs == ClosingCosts(params, home_price)
        loan_amount == home_price - down_payment
        monthly_mortgage == MonthlyMortgage(loan_amount, interest_rate)
        monthly_property_tax == PropertyTax(params, home_price)
        monthly_insurance == InitialInsurance(params, region_adj)
        monthly_maintenance == Maintenance(params, home_price)
    IN  [l EXCEPT
            !.state = "Running", !.year = 0, !.month = 0,
            !.home_price = home_price,
            !.down_payment = down_payment,
            !.closing_costs = closing_costs,
            !.loan_amount = loan_amount,
            !.interest_rate = interest_rate,
            !.monthly_mortgage = monthly_mortgage,
            !.monthly_property_tax = monthly_property_tax,
            !.monthly_insurance = monthly_insurance,
            !.monthly_hoa = params.hoa_monthly,
            !.monthly_maintenance = monthly_maintenance,
            !.total_monthly = monthly_mortgage + monthly_property_tax
                              + monthly_insurance + params.hoa_monthly
                              + monthly_maintenance,
            !.current_home_value = home_price,
            !.current_loan_balance = loan_amount,
            !.income = h.annual_income,
            !.total_costs = InitialTotalCosts(down_payment, closing_costs),
            !.months_affordable = 0]

\* the head of the trial loop body: price draw, entry gate, rate draw
BuyTrialStart ==
    /\ pc = "buy_trial"
    /\ sim < num_simulations
    /\ LET params == scenarios[call.scenario]
           region_adj == RegionAdj(household.region)
           savings == household.savings
           home_price == HomePrice(params, region_adj, Draw(rng, 1))
           down_payment == DownPayment(params, home_price)
           closing_costs == ClosingCosts(params, home_price)
           interest_rate == InterestRate(params, household.credit_score, Draw(rng, 2))
       IN  IF CannotEnter(savings, down_payment, closing_costs)
           THEN /\ rng' = Advance(rng, 1)
                /\ draws' = Drawn(draws, "price", 1)
                /\ arr' = [arr EXCEPT
                       !.default_occurred = Append(@, TRUE),
                       !.final_equity =
                           Append(@, FailedEntryEquity(savings, closing_costs)),
                       !.months_solvent = Append(@, 0),
                       !.total_paid = Append(@, Min(savings, closing_costs)),
                       !.monthly_costs = Append(@, 0)]
                /\ loc' = [loc EXCEPT !.state = "FailedEntry",
                                      !.home_price = home_price,
                                      !.down_payment = down_payment,
                                      !.closing_costs = closing_costs]
                /\ sim' = sim + 1
                /\ pc' = "buy_trial"
           ELSE /\ rng' = Advance(rng, 2)
                /\ draws' = Drawn(Drawn(draws, "price", 1), "rate", 1)
                /\ loc' = Purchase(loc, household, params, region_adj, home_price,
                                   interest_rate)
                /\ pc' = IF time_horizon_years > 0 THEN "buy_year" ELSE "buy_final"
                /\ UNCHANGED <<sim, arr>>
    /\ UNCHANGED <<sims, pristine, caller, household, num_simulations,
                   time_horizon_years, call, result, history>>

\* the yearly shocks: the body of `for year in range(time_horizon_years)` up to
\* the month loop
YearShocks(l, params, config, u_income, u_appreciation, u_insurance, u_maintenance) ==
    LET income_change == Normal(config.income_growth, 800, u_income)
        appreciation == Normal(params.appreciation_mean, params.appreciation_std,
                               u_appreciation)
        current_home_value == Grow(l.current_home_value, appreciation)
        insurance_mode == Clip(config.insurance_increase, 300, 1200)
        insurance_increase == Triangular(300, insurance_mode, 1200, u_insurance)
        monthly_insurance == Grow(l.monthly_insurance, insurance_increase)
        monthly_property_tax == PropertyTax(params, current_home_value)
        monthly_maintenance ==
            MulDiv(Maintenance(params, current_home_value),
                   Uniform(8000, 15000, u_maintenance), BP)
    IN  [l EXCEPT
            !.income = Grow(@, income_change),
            !.current_home_value = current_home_value,
            !.monthly_insurance = monthly_insurance,
            !.monthly_property_tax = monthly_property_tax,
            !.monthly_maintenance = monthly_maintenance,
            !.total_monthly = l.monthly_mortgage + monthly_property_tax
                              + monthly_insurance + l.monthly_hoa
                              + monthly_maintenance,
            !.month = 0]

BuyYear ==
    /\ pc = "buy_year"
    /\ loc.year < time_horizon_years
    /\ loc' = YearShocks(loc, scenarios[call.scenario], Self,
                         Draw(rng, 1), Draw(rng, 2), Draw(rng, 3), Draw(rng, 4))
    /\ rng' = Advance(rng, 4)
    /\ draws' = Drawn(Drawn(Drawn(Drawn(draws, "income", 1), "appreciation", 1),
                            "insurance", 1), "maintenance", 1)
    /\ pc' = "buy_month"
    /\ UNCHANGED <<sims, pristine, caller, household, num_simulations,
                   time_horizon_years, call, sim, arr, result, history>>

\* where the trial goes after month number `month` of year number `year`
AfterMonth(year, month, horizon) ==
    IF month + 1 < 12 THEN "buy_month"
    ELSE IF year + 1 < horizon THEN "buy_year" ELSE "buy_final"

\* variant of AfterDefault: the break leaves the month loop only, the check
\* after it that leaves the year loop is missing
AfterDefaultMonthLoopOnly(year, month, horizon) ==
    IF year + 1 < horizon THEN "buy_year" ELSE "buy_final"

\* where the trial goes after a default: `break` out of the month loop, then
\* `if default_occurred[sim]: break` out of the year loop
AfterDefault(year, month, horizon) == "buy_final"

\* the locals after an affordable month
PayMonth(l) ==
    [l EXCEPT
        !.months_affordable = @ + 1,
        !.total_costs = @ + l.total_monthly,
        !.current_loan_balance = Amortize(@, l.monthly_mortgage, l.interest_rate)]

\* variant of SkipMonth: the counter counts the months survived, not the
\* months that were affordable
SkipMonthCounted(l) == [l EXCEPT !.months_affordable = @ + 1]

\* variant of SkipMonth: the month's cost accrues although nothing is paid
SkipMonthCharged(l) == [l EXCEPT !.total_costs = @ + l.total_monthly]

\* the locals after an unaffordable month whose default draw is >= 0.3: the
\* else branch assigns nothing
SkipMonth(l) == l

\* the loop counters after a month that did not end the trial
NextMonth(l) ==
    [l EXCEPT !.month = IF l.month + 1 < 12 THEN @ + 1 ELSE 0,
              !.year = IF l.month + 1 < 12 THEN @ ELSE @ + 1]

\* one iteration of `for month in range(12)`
BuyMonth ==
    /\ pc = "buy_month"
    /\ loc.month < 12
    /\ IF HousingAffordable(loc.total_monthly, loc.income, Self.affordability_threshold)
       THEN /\ loc' = NextMonth(PayMonth(loc))
            /\ pc' = AfterMonth(loc.year, loc.month, time_horizon_years)
            /\ UNCHANGED <<rng, draws>>
       ELSE /\ rng' = Advance(rng, 1)
            /\ draws' = Drawn(draws, "default", 1)
            /\ IF DefaultDraw(Draw(rng, 1))
               THEN /\ loc' = [loc EXCEPT !.state = "Defaulted"]
                    /\ pc' = AfterDefault(loc.year, loc.month, time_horizon_years)
               ELSE /\ loc' = NextMonth(SkipMonth(loc))
                    /\ pc' = AfterMonth(loc.year, loc.month, time_horizon_years)
    /\ UNCHANGED <<sims, pristine, caller, household, num_simulations,
                   time_horizon_years, call, sim, arr, result, history>>

\* variant of FinalEquity: a default does not wipe out the equity
FinalEquityKeptOnDefault(l) ==
    HomeEquity(l.current_home_value, l.current_loan_balance)

\* final_equity[sim] of a trial that passed the entry gate
FinalEquity(l) ==
    IF l.state = "Defaulted"
    THEN DefaultedEquity(l.down_payment, l.closing_costs, l.total_costs)
    ELSE HomeEquity(l.current_home_value, l.current_loan_balance)

\* the tail of the trial loop body: terminal accounting
BuyTrialEnd ==
    /\ pc = "buy_final"
    /\ arr' = [arr EXCEPT
           !.default_occurred = Append(@, loc.state = "Defaulted"),
           !.final_equity = Append(@, FinalEquity(loc)),
           !.monthly_costs = Append(@, loc.total_monthly),
           !.total_paid = Append(@, loc.total_costs),
           !.months_solvent = Append(@, loc.months_affordable)]
    /\ loc' = [loc EXCEPT !.state = IF @ = "Defaulted" THEN @ ELSE "HorizonCompleted"]
    /\ sim' = sim + 1
    /\ pc' = "buy_trial"
    /\ UNCHANGED <<rng, sims, pristine, caller, household, num_simulations,
                   time_horizon_years, call, draws, result, history>>

\* (~default_occurred).sum() > 0
AnySolvent(default_occurred) == Count(Not(default_occurred)) > 0

\* x[~default_occurred]
Solvent(a, default_occurred) == Select(a, Not(default_occurred))

P5(a) == Percentile(a, 5)

P95(a) == Percentile(a, 95)

\* (months_solvent == time_horizon_years * 12).sum() / num_simulations
ProbabilityAffordable(months_solvent, horizon, n) ==
    Frac(Count([i \in DOMAIN months_solvent |-> months_solvent[i] = horizon * 12]), n)

\* variant of ProbabilityDefault: defaults per surviving trial
ProbabilityDefaultPerSurvivor(default_occurred, n) ==
    Frac(Count(default_occurred), Count(Not(default_occurred)))

ProbabilityDefault(default_occurred, n) == Frac(Count(default_occurred), n)

ProbabilityNegativeEquity(final_equity, n) ==
    Frac(Count([i \in DOMAIN final_equity |-> final_equity[i] < 0]), n)

\* the results dictionary of simulate_buying
BuyResults(h, scenario_name, n, horizon, a) ==
    [household_id |-> h.household_id,
     scenario |-> scenario_name,
     simulations |-> n,
     time_horizon_years |-> horizon,
     initial_monthly_cost |->
         [mean |-> IF AnySolvent(a.default_occurred)
                   THEN Mean(Solvent(a.monthly_costs, a.default_occurred)) ELSE 0,
          median |-> IF AnySolvent(a.default_occurred)
                     THEN Median(Solvent(a.monthly_costs, a.default_occurred)) ELSE 0],
     final_monthly_cost |->
         [mean |-> IF AnySolvent(a.default_occurred)
                   THEN Mean(Solvent(a.monthly_costs, a.default_occurred)) ELSE 0,
          median |-> IF AnySolvent(a.default_occurred)
                     THEN Median(Solvent(a.monthly_costs, a.default_occurred)) ELSE 0,
          percentile_5 |-> IF AnySolvent(a.default_occurred)
                           THEN P5(Solvent(a.monthly_costs, a.default_occurred)) ELSE 0,
          percentile_95 |-> IF AnySolvent(a.default_occurred)
                            THEN P95(Solvent(a.monthly_costs, a.default_occurred)) ELSE 0],
     total_cost_paid |-> Stats(a.total_paid),
     equity_built |->
         [mean |-> IF AnySolvent(a.default_occurred)
                   THEN Mean(Solvent(a.final_equity, a.default_occurred))
                   ELSE Mean(a.final_equity),
          median |-> IF AnySolvent(a.default_occurred)
                     THEN Median(Solvent(a.final_equity, a.default_occurred))
                     ELSE Median(a.final_equity),
          percentile_5 |-> Percentile(a.final_equity, 5),
          percentile_95 |-> Percentile(a.final_equity, 95)],
     probability_affordable |-> ProbabilityAffordable(a.months_solvent, horizon, n),
     probability_default |-> ProbabilityDefault(a.default_occurred, n),
     probability_negative_equity |-> ProbabilityNegativeEquity(a.final_equity, n),
     mean_affordable_months |-> Mean(a.months_solvent)]

BuyReturn ==
    /\ pc = "buy_trial"
    /\ sim = num_simulations
    /\ Return(BuyResults(household, call.scenario, num_simulations,
                         time_horizon_years, arr))
    /\ UNCHANGED <<rng, sims, pristine, caller, household, num_simulations,
                   time_horizon_years, loc, draws>>

----------------------------------------------------------------------------
(* simulate_timeline *)

\* simulate_timeline(household, scenario_name, num_simulations, time_horizon_years)
SimulateTimeline(self, scenario) ==
    /\ CanCall(self)
    /\ IF InCatalog(scenario)
       THEN Begin("simulate_timeline", self, scenario, <<>>, "tl_trial")
       ELSE RaiseKeyError("simulate_timeline", self, scenario)
    /\ UNCHANGED Args

\* variant of FlatRow: only year 0 is assigned, the later years keep the zeros
\* the array was created with
FlatRowYearZeroOnly(horizon, v) == [y \in 1..(horizon + 1) |-> IF y = 1 THEN v ELSE 0]

\* yearly_x[sim, :] = v
FlatRow(horizon, v) == [y \in 1..(horizon + 1) |-> v]

\* yearly_x[sim, year] = v for the trial in progress, the last row begun
SetYear(rows, v) == [rows EXCEPT ![Len(rows)] = Append(@, v)]

\* the locals of a timeline trial that passed the entry gate, and its year-0 cost
TimelinePurchase(l, h, params, region_adj, home_price, interest_rate) ==
    LET down_payment == DownPayment(params, home_price)
        closing_costs == ClosingCosts(params, home_price)
        loan_amount == home_price - down_payment
    IN  [l EXCEPT
            !.state = "Running", !.year = 0,
            !.home_price = home_price,
            !.down_payment = down_payment,
            !.closing_costs = closing_costs,
            !.loan_amount = loan_amount,
            !.interest_rate = interest_rate,
            !.monthly_mortgage = MonthlyMortgage(loan_amount, interest_rate),
            !.monthly_insurance = InitialInsurance(params, region_adj),
            !.monthly_hoa = params.hoa_monthly,
            !.current_home_value = home_price,
            !.current_loan_balance = loan_amount,
            !.income = h.annual_income,
            !.cumulative_cost = down_payment + closing_costs]

\* variant of YearZeroEquity: year 0 keeps the zero the array was created with
YearZeroEquityUnset(l) == 0

\* yearly_equity[sim, 0] of a trial that passed the entry gate
YearZeroEquity(l) == l.down_payment

\* yearly_costs[sim, 0] of a trial that passed the entry gate
YearZeroCost(l, params) ==
    l.monthly_mortgage + PropertyTax(params, l.home_price) + l.monthly_insurance
    + l.monthly_hoa

\* the head of the trial loop body, either branch, up to the year loop
TimelineTrialStart ==
    /\ pc = "tl_trial"
    /\ sim < num_simulations
    /\ LET params == scenarios[call.scenario]
           region_adj == RegionAdj(household.region)
           savings == household.savings
           home_price == HomePrice(params, region_adj, Draw(rng, 1))
           down_payment == DownPayment(params, home_price)
           closing_costs == ClosingCosts(params, home_price)
           interest_rate == InterestRate(params, household.credit_score, Draw(rng, 2))
           bought == TimelinePurchase(loc, household, params, region_adj, home_price,
                                      interest_rate)
           over == time_horizon_years = 0
       IN  IF call.scenario = KeepRenting
           THEN /\ loc' = [loc EXCEPT !.state = "Running", !.year = 0,
                                      !.rent = household.current_monthly_rent,
                                      !.income = household.annual_income,
                                      !.cumulative_cost = 0]
                /\ arr' = [arr EXCEPT
                       !.yearly_equity = Append(@, <<0>>),
                       !.yearly_costs = Append(@, <<household.current_monthly_rent>>),
                       !.yearly_total_paid = Append(@, <<0>>)]
                /\ sim' = IF over THEN sim + 1 ELSE sim
                /\ pc' = IF over THEN "tl_trial" ELSE "tl_rent_year"
                /\ UNCHANGED <<rng, draws>>
           ELSE IF CannotEnter(savings, down_payment, closing_costs)
           THEN /\ rng' = Advance(rng, 1)
                /\ draws' = Drawn(draws, "price", 1)
                /\ loc' = [loc EXCEPT !.state = "FailedEntry",
                                      !.home_price = home_price,
                                      !.down_payment = down_payment,
                                      !.closing_costs = closing_costs]
                /\ arr' = [arr EXCEPT
                       !.yearly_equity =
                           Append(@, FlatRow(time_horizon_years,
                                             -Min(savings, closing_costs))),
                       !.yearly_costs = Append(@, FlatRow(time_horizon_years, 0)),
                       !.yearly_total_paid =
                           Append(@, FlatRow(time_horizon_years,
                                             Min(savings, closing_costs)))]
                /\ sim' = sim + 1
                /\ pc' = "tl_trial"
           ELSE /\ rng' = Advance(rng, 2)
                /\ draws' = Drawn(Drawn(draws, "price", 1), "rate", 1)
                /\ loc' = bought
                /\ arr' = [arr EXCEPT
                       !.yearly_equity = Append(@, <<YearZeroEquity(bought)>>),
                       !.yearly_costs = Append(@, <<YearZeroCost(bought, params)>>),
                       !.yearly_total_paid = Append(@, <<bought.cumulative_cost>>)]
                /\ sim' = IF over THEN sim + 1 ELSE sim
                /\ pc' = IF over THEN "tl_trial" ELSE "tl_buy_year"
    /\ UNCHANGED <<sims, pristine, caller, household, num_simulations,
                   time_horizon_years, call, result, history>>

\* where the trial loop goes after year number `year` (1-based) is recorded
AfterYear(year, horizon, again) == IF year < horizon THEN again ELSE "tl_trial"

\* one iteration of `for year in range(1, time_horizon_years + 1)`, renting
TimelineRentYear ==
    /\ pc = "tl_rent_year"
    /\ LET rent_increase == Triangular(300, 500, 1000, Draw(rng, 1))
           rent == Grow(loc.rent, rent_increase)
           income_change == Normal(Self.income_growth, 800, Draw(rng, 2))
           cumulative_cost == loc.cumulative_cost + rent * 12
           year == loc.year + 1
       IN  /\ rng' = Advance(rng, 2)
           /\ draws' = Drawn(Drawn(draws, "rent", 1), "income", 1)
           /\ loc' = [loc EXCEPT !.rent = rent,
                                 !.income = Grow(@, income_change),
                                 !.cumulative_cost = cumulative_cost,
                                 !.year = year,
                                 !.state = IF year < time_horizon_years
                                           THEN @ ELSE "HorizonCompleted"]
           /\ arr' = [arr EXCEPT !.yearly_equity = SetYear(@, 0),
                                 !.yearly_costs = SetYear(@, rent),
                                 !.yearly_total_paid = SetYear(@, cumulative_cost)]
           /\ sim' = IF year < time_horizon_years THEN sim ELSE sim + 1
           /\ pc' = AfterYear(year, time_horizon_years, "tl_rent_year")
    /\ UNCHANGED <<sims, pristine, caller, household, num_simulations,
                   time_horizon_years, call, result, history>>

RECURSIVE AmortizeMonths(_, _, _, _)
\* current_loan_balance after `months` payments
AmortizeMonths(balance, monthly_mortgage, interest_rate, months) ==
    IF months = 0 THEN balance
    ELSE AmortizeMonths(Amortize(balance, monthly_mortgage, interest_rate),
                        monthly_mortgage, interest_rate, months - 1)

\* the yearly shocks of the timeline: no maintenance draw
TimelineShocks(l, params, config, u_income, u_appreciation, u_insurance) ==
    LET income_change == Normal(config.income_growth, 800, u_income)
        appreciation == Normal(params.appreciation_mean, params.appreciation_std,
                               u_appreciation)
        current_home_value == Grow(l.current_home_value, appreciation)
        insurance_mode == Clip(config.insurance_increase, 300, 1200)
        insurance_increase == Triangular(300, insurance_mode, 1200, u_insurance)
        monthly_insurance == Grow(l.monthly_insurance, insurance_increase)
        monthly_property_tax == PropertyTax(params, current_home_value)
        monthly_maintenance == Maintenance(params, current_home_value)
    IN  [l EXCEPT
            !.income = Grow(@, income_change),
            !.current_home_value = current_home_value,
            !.monthly_insurance = monthly_insurance,
            !.monthly_property_tax = monthly_property_tax,
            !.monthly_maintenance = monthly_maintenance,
            !.total_monthly = l.monthly_mortgage + monthly_property_tax
                              + monthly_insurance + l.monthly_hoa
                              + monthly_maintenance]

\* variant of TimelinePayYear: the year is paid only while the housing cost is
\* no more than half of the income, as the default affordability rule has it
TimelinePayYearWhileAffordable(l) ==
    IF HousingAffordable(l.total_monthly, l.income, 50)
    THEN [l EXCEPT
             !.current_loan_balance =
                 AmortizeMonths(@, l.monthly_mortgage, l.interest_rate, 12),
             !.cumulative_cost = @ + 12 * l.total_monthly]
    ELSE l

\* variant of TimelinePayYear: the year's payments overwrite the running total
TimelinePayYearOverwrite(l) ==
    [l EXCEPT
        !.current_loan_balance =
            AmortizeMonths(@, l.monthly_mortgage, l.interest_rate, 12),
        !.cumulative_cost = 12 * l.total_monthly]

\* the twelve payments of a timeline year
TimelinePayYear(l) ==
    [l EXCEPT
        !.current_loan_balance =
            AmortizeMonths(@, l.monthly_mortgage, l.interest_rate, 12),
        !.cumulative_cost = @ + 12 * l.total_monthly]

\* one iteration of `for year in range(1, time_horizon_years + 1)`, buying
TimelineBuyYear ==
    /\ pc = "tl_buy_year"
    /\ LET shocked == TimelineShocks(loc, scenarios[call.scenario], Self,
                                     Draw(rng, 1), Draw(rng, 2), Draw(rng, 3))
           paid == TimelinePayYear(shocked)
           equity == HomeEquity(paid.current_home_value, paid.current_loan_balance)
           year == loc.year + 1
       IN  /\ rng' = Advance(rng, 3)
           /\ draws' = Drawn(Drawn(Drawn(draws, "income", 1), "appreciation", 1),
                             "insurance", 1)
           /\ loc' = [paid EXCEPT !.year = year,
                                  !.state = IF year < time_horizon_years
                                            THEN @ ELSE "HorizonCompleted"]
           /\ arr' = [arr EXCEPT
                  !.yearly_equity = SetYear(@, equity),
                  !.yearly_costs = SetYear(@, paid.total_monthly),
                  !.yearly_total_paid = SetYear(@, paid.cumulative_cost)]
           /\ sim' = IF year < time_horizon_years THEN sim ELSE sim + 1
           /\ pc' = AfterYear(year, time_horizon_years, "tl_buy_year")
    /\ UNCHANGED <<sims, pristine, caller, household, num_simulations,
                   time_horizon_years, call, result, history>>

\* yearly_x[:, y]
Column(rows, y) == [i \in 1..Len(rows) |-> rows[i][y + 1]]

\* [np.percentile(yearly_x[:, y], q) for y in years]
Band(rows, horizon, q) == [y \in 1..(horizon + 1) |-> Percentile(Column(rows, y - 1), q)]

\* the dictionary simulate_timeline returns
TimelineResults(scenario_name, horizon, a) ==
    [scenario |-> scenario_name,
     years |-> [y \in 1..(horizon + 1) |-> y - 1],
     equity |-> [pessimistic |-> Band(a.yearly_equity, horizon, 5),
                 expected |-> Band(a.yearly_equity, horizon, 50),
                 optimistic |-> Band(a.yearly_equity, horizon, 95)],
     monthly_costs |-> [pessimistic |-> Band(a.yearly_costs, horizon, 95),
                        expected |-> Band(a.yearly_costs, horizon, 50),
                        optimistic |-> Band(a.yearly_costs, horizon, 5)],
     cumulative_costs |-> [pessimistic |-> Band(a.yearly_total_paid, horizon, 95),
                           expected |-> Band(a.yearly_total_paid, horizon, 50),
                           optimistic |-> Band(a.yearly_total_paid, horizon, 5)]]

TimelineReturn ==
    /\ pc = "tl_trial"
    /\ sim = num_simulations
    /\ Return(TimelineResults(call.scenario, time_horizon_years, arr))
    /\ UNCHANGED <<rng, sims, pristine, caller, household, num_simulations,
                   time_horizon_years, loc, draws>>

----------------------------------------------------------------------------
(* Specifications *)

Next ==
    \/ \E random_seed \in caller.seeds, config \in caller.configs :
           Construct(random_seed, config)
    \/ \E self \in DOMAIN sims, scenario \in ScenarioNames :
           SimulateHousehold(self, scenario)
    \/ \E self \in DOMAIN sims : CompareScenarios(self)
    \/ \E self \in DOMAIN sims, scenario \in ScenarioNames :
           SimulateTimeline(self, scenario)
    \/ RentTrialStart
    \/ RentYear
    \/ RentTrialEnd
    \/ RentReturn
    \/ BuyTrialStart
    \/ BuyYear
    \/ BuyMonth
    \/ BuyTrialEnd
    \/ BuyReturn
    \/ TimelineTrialStart
    \/ TimelineRentYear
    \/ TimelineBuyYear
    \/ TimelineReturn

\* one simulator, one call
Spec == Init /\ [][Next]_vars

\* several simulators and calls in one process
SpecSession == InitSession /\ [][Next]_vars

\* A program that runs one trial for household HH-B on each of two simulators,
\* which may differ in affordability_threshold only.
InitThresholds ==
    /\ Idle
    /\ RunArgs
    /\ household.household_id = "HH-B"
    /\ num_simulations = 1
    /\ caller = [seeds |-> {42, 536}, configs |-> ThresholdConfigs,
                 sims |-> 2, calls |-> 2]

SpecThresholds == InitThresholds /\ [][Next]_vars

\* the term of the mortgage in years: num_payments = 30 * 12
MortgageYears == 30

\* A program that runs one trial over the whole term of the mortgage.
InitMortgageTerm ==
    /\ Idle
    /\ household \in Households
    /\ num_simulations = 1
    /\ time_horizon_years = MortgageYears
    /\ caller = [seeds |-> Seeds, configs |-> Configs, sims |-> 1, calls |-> 1]

SpecMortgageTerm == InitMortgageTerm /\ [][Next]_vars

----------------------------------------------------------------------------
(* Properties *)

LastCall == history[Len(history)]

\* the simulate_buying records the last call returned
ReturnedBuying ==
    IF history = <<>> \/ result.status # "ok" THEN {}
    ELSE IF LastCall.op = "simulate_household" /\ LastCall.scenario # KeepRenting
         THEN {result.value}
    ELSE IF LastCall.op = "compare_scenarios"
         THEN {result.value[s] : s \in DOMAIN result.value \ {KeepRenting}}
    ELSE {}

\* the last call was simulate_household for a buying scenario and returned
ReturnedOneBuying ==
    /\ history # <<>>
    /\ result.status = "ok"
    /\ LastCall.op = "simulate_household"
    /\ LastCall.scenario # KeepRenting

\* the last call was simulate_household for renting and returned
ReturnedOneRenting ==
    /\ history # <<>>
    /\ result.status = "ok"
    /\ LastCall.op = "simulate_household"
    /\ LastCall.scenario = KeepRenting

\* the calls i and j were made on simulators with the same seed and config
SameSimulator(i, j) == sims[history[i].self] = sims[history[j].self]

InUnit(p) == p.den >= 1 /\ 0 <= p.num /\ p.num <= p.den

\* down payment + closing costs at the scenario's minimum price in the region
MinEntryCost(params, region_adj) ==
    LET home_price == MulDiv(params.home_price_min, region_adj.price_multiplier, 100)
    IN  DownPayment(params, home_price) + ClosingCosts(params, home_price)

InBuying == pc \in {"buy_trial", "buy_year", "buy_month", "buy_final"}

InTimeline == pc \in {"tl_trial", "tl_rent_year", "tl_buy_year"}

\* C1: two simulate_household calls with the same seed, config, household,
\* scenario, trial count and horizon return identical ResultRecords, also when
\* both are made on one simulator object.
C1_RepeatedCallsIdentical ==
    \A i, j \in DOMAIN history :
        (/\ history[i].op = "simulate_household"
         /\ history[j].op = "simulate_household"
         /\ history[i].scenario = history[j].scenario
         /\ SameSimulator(i, j))
        => history[i].result = history[j].result

\* C2: the record compare_scenarios returns for a catalog scenario equals the
\* record simulate_household returns for that scenario on a freshly constructed
\* simulator with the same seed and config.
C2_ComparisonEqualsFreshRun ==
    \A i, j \in DOMAIN history :
        (/\ history[i].op = "compare_scenarios"
         /\ history[i].fresh
         /\ history[i].result.status = "ok"
         /\ history[j].op = "simulate_household"
         /\ history[j].fresh
         /\ history[j].result.status = "ok"
         /\ SameSimulator(i, j))
        => history[i].result.value[history[j].scenario] = history[j].result.value

C4_RentingProbabilitiesSumToOne ==
    /\ pc \in {"rent_trial", "rent_year", "rent_end"}
           => \A i \in DOMAIN arr.affordability_months :
                  arr.affordability_months[i] <= time_horizon_years * 12
    /\ ReturnedOneRenting
           => /\ result.value.probability_affordable.den = result.value.simulations
              /\ result.value.probability_unaffordable.den = result.value.simulations
              /\ result.value.probability_affordable.num
                   + result.value.probability_unaffordable.num
                 = result.value.simulations

\* C4 witness: a returned renting record with one affordable and one
\* unaffordable trial
C4_Witness ==
    /\ ReturnedOneRenting
    /\ time_horizon_years = 2
    /\ result.value.probability_affordable.num = 1
    /\ result.value.probability_unaffordable.num = 1

\* C5: every buying trial whose default flag is set (failed entry or defaulted)
\* has final equity <= 0.
C5_DefaultedEquityNotPositive ==
    \A i \in DOMAIN arr.default_occurred :
        arr.default_occurred[i] => arr.final_equity[i] <= 0

\* C5 witness: the trial just recorded defaulted after paying some months, the one
\* before it failed entry
C5_Witness ==
    /\ pc = "buy_trial"
    /\ sim = 2
    /\ loc.state = "Defaulted"
    /\ loc.months_affordable > 0
    /\ arr.default_occurred = <<TRUE, TRUE>>
    /\ arr.months_solvent[1] = 0
    /\ arr.final_equity[2] < 0

\* C6: if savings are below the entry cost at the scenario's minimum price in
\* the household's region, no trial passes the entry gate and
\* probability_default = 1.
C6_BelowMinimumEntryAlwaysFails ==
    LET Short(name) ==
            household.savings < MinEntryCost(scenarios[name], RegionAdj(household.region))
    IN  /\ (InBuying /\ Short(call.scenario))
               => /\ pc = "buy_trial"
                  /\ \A i \in DOMAIN arr.default_occurred :
                         arr.default_occurred[i] /\ arr.months_solvent[i] = 0
        /\ \A r \in ReturnedBuying :
               Short(r.scenario)
                   => r.probability_default = Frac(r.simulations, r.simulations)

\* C6 witness: household HH-A got its Buy Starter Home record, two trials
C6_Witness ==
    /\ ReturnedOneBuying
    /\ household.savings > 0
    /\ household.savings
           < MinEntryCost(scenarios[LastCall.scenario], RegionAdj(household.region))
    /\ result.value.probability_default = Frac(2, 2)

\* C7: with horizon 0 no income, appreciation, insurance, maintenance or default
\* draw is made; every trial either fails entry or ends with 0 months solvent,
\* total cost = down payment + closing costs and equity = down payment; and
\* probability_default is the fraction of failed entries.
C7_HorizonZero ==
    time_horizon_years = 0 =>
        /\ \A k \in {"income", "appreciation", "insurance", "maintenance", "default"} :
               draws[k] = 0
        /\ \A i \in DOMAIN arr.months_solvent : arr.months_solvent[i] = 0
        /\ (pc = "buy_trial" /\ sim > 0 /\ loc.state = "FailedEntry")
               => arr.default_occurred[sim]
        /\ (pc = "buy_trial" /\ sim > 0 /\ loc.state # "FailedEntry")
               => /\ ~arr.default_occurred[sim]
                  /\ arr.total_paid[sim] = loc.down_payment + loc.closing_costs
                  /\ arr.final_equity[sim] = loc.down_payment
        /\ ReturnedOneBuying
               => result.value.probability_default
                  = Frac(draws["price"] - draws["rate"], num_simulations)

\* C7 witness: a returned horizon-0 record of one failed entry and one purchase
C7_Witness ==
    /\ time_horizon_years = 0
    /\ ReturnedOneBuying
    /\ draws["price"] = 2
    /\ draws["rate"] = 1
    /\ result.value.probability_default = Frac(1, 2)

\* the timeline row of the trial the locals describe
CurrentRow(rows) == rows[Len(rows)]

\* C8 (as claimed): in the timeline every trial's year-0 equity is the down
\* payment for a buying scenario and 0 for renting.
C8_YearZeroEquity ==
    (InTimeline /\ arr.yearly_equity # <<>>) =>
        CurrentRow(arr.yearly_equity)[1]
            = IF call.scenario = KeepRenting THEN 0 ELSE loc.down_payment

\* C8 (amended): in the timeline the year-0 equity of a trial is 0 for renting,
\* the down payment for a buying trial that passes the entry gate, and
\* -min(savings, closing costs) for a buying trial that fails it.
C8_YearZeroEquityAmended ==
    (InTimeline /\ arr.yearly_equity # <<>>) =>
        CurrentRow(arr.yearly_equity)[1]
            = IF call.scenario = KeepRenting THEN 0
              ELSE IF loc.state = "FailedEntry"
                   THEN -Min(household.savings, loc.closing_costs)
                   ELSE loc.down_payment

\* C8 witness: a purchase whose two timeline years are recorded
C8_Witness ==
    /\ InTimeline
    /\ arr.yearly_equity # <<>>
    /\ call.scenario # KeepRenting
    /\ loc.state = "HorizonCompleted"
    /\ Len(CurrentRow(arr.yearly_equity)) = 3
    /\ loc.down_payment > 0
    /\ CurrentRow(arr.yearly_equity)[1] = loc.down_payment

\* C9: in the timeline the cumulative cost of every trial is non-decreasing from
\* each recorded year to the next.
C9_CumulativeCostNonDecreasing ==
    \A i \in DOMAIN arr.yearly_total_paid :
        \A k \in 1..(Len(arr.yearly_total_paid[i]) - 1) :
            arr.yearly_total_paid[i][k + 1] >= arr.yearly_total_paid[i][k]

\* C9 witness: two timeline trials over two years, a failed entry with its flat
\* row and a purchase with a strictly increasing one
C9_Witness ==
    /\ pc = "tl_trial"
    /\ sim = 2
    /\ time_horizon_years = 2
    /\ arr.yearly_total_paid[1][1] = arr.yearly_total_paid[1][3]
    /\ arr.yearly_total_paid[2][1] < arr.yearly_total_paid[2][2]
    /\ arr.yearly_total_paid[2][2] < arr.yearly_total_paid[2][3]

\* C10: simulate_household and simulate_timeline with a scenario name that is
\* no catalog key raise KeyError to the caller: no trial runs for such a name
\* and nothing is returned.
C10_UnknownScenarioRaises ==
    /\ call.op # "none" => call.scenario \in DOMAIN scenarios
    /\ \A i \in DOMAIN history :
           history[i].scenario \notin DOMAIN scenarios
               => /\ history[i].result = [status |-> "KeyError",
                                          key |-> history[i].scenario]
                  /\ result = history[i].result \/ i < Len(history)

\* C10 witness: simulate_timeline raised for a name that is no catalog key
C10_Witness ==
    /\ history # <<>>
    /\ LastCall.op = "simulate_timeline"
    /\ LastCall.scenario \notin DOMAIN scenarios
    /\ result.status = "KeyError"
    /\ pc = "idle"

\* the step in which simulate_buying returns its results dictionary
BuyingReturns == pc = "buy_trial" /\ sim = num_simulations /\ sim' = 0

\* the dictionary that step returns: to the caller, or to compare_scenarios
\* which stores it under the scenario name
ReturnedNow ==
    IF call.op = "compare_scenarios"
    THEN IF Len(call.queue) > 1
         THEN call'.comparison[call.scenario]
         ELSE result'.value[call.scenario]
    ELSE result'.value

\* x[~default_occurred] if some trial is not default-flagged, else x
SolventOrAll(x) ==
    IF AnySolvent(arr.default_occurred) THEN Solvent(x, arr.default_occurred) ELSE x

\* C11: monthly-cost and equity mean/median of a buying record are taken over
\* the non-defaulted trials, and over the full trial set when every trial is
\* default-flagged, for monthly cost as well as for equity.
C11_MeanMedianOverSolventOrAll ==
    [][BuyingReturns =>
        LET costs == SolventOrAll(arr.monthly_costs)
            equity == SolventOrAll(arr.final_equity)
        IN  /\ ReturnedNow.initial_monthly_cost.mean = Mean(costs)
            /\ ReturnedNow.initial_monthly_cost.median = Median(costs)
            /\ ReturnedNow.final_monthly_cost.mean = Mean(costs)
            /\ ReturnedNow.final_monthly_cost.median = Median(costs)
            /\ ReturnedNow.equity_built.mean = Mean(equity)
            /\ ReturnedNow.equity_built.median = Median(equity)]_vars

\* C12: the 5th/95th percentiles of a buying record, for monthly cost as well as
\* for equity, are taken over the full trial set, defaulted trials included.
C12_PercentilesOverAllTrials ==
    [][BuyingReturns =>
        /\ ReturnedNow.final_monthly_cost.percentile_5 = P5(arr.monthly_costs)
        /\ ReturnedNow.final_monthly_cost.percentile_95 = P95(arr.monthly_costs)
        /\ ReturnedNow.equity_built.percentile_5 = P5(arr.final_equity)
        /\ ReturnedNow.equity_built.percentile_95 = P95(arr.final_equity)]_vars

\* the calls i and j ran the same buying scenario on freshly constructed
\* simulators that differ in nothing but a lower threshold for call i
LowerThreshold(i, j) ==
    /\ history[i].op = "simulate_household"
    /\ history[j].op = "simulate_household"
    /\ history[i].scenario = history[j].scenario
    /\ history[i].scenario \in DOMAIN scenarios \ {KeepRenting}
    /\ history[i].fresh
    /\ history[j].fresh
    /\ history[i].result.status = "ok"
    /\ history[j].result.status = "ok"
    /\ [sims[history[i].self] EXCEPT !.affordability_threshold = 0]
           = [sims[history[j].self] EXCEPT !.affordability_threshold = 0]
    /\ sims[history[i].self].affordability_threshold
           < sims[history[j].self].affordability_threshold

\* C13: with household, scenario, the other parameters and the trial's draws
\* held fixed, a lower affordability_threshold gives no higher
\* probability_affordable: a trial solvent in all H*12 months under a threshold
\* is solvent in all H*12 months under a higher one.
C13_LowerThresholdNotMoreAffordable ==
    \A i, j \in DOMAIN history :
        LowerThreshold(i, j) =>
            /\ history[i].result.value.probability_affordable.den
                   = history[j].result.value.probability_affordable.den
            /\ history[i].result.value.probability_affordable.num
                   <= history[j].result.value.probability_affordable.num

\* C13 witness: over two years the trial is solvent in all 24 months under the
\* lower threshold, and was run under the higher one too
C13_Witness ==
    \E i, j \in DOMAIN history :
        /\ LowerThreshold(i, j)
        /\ time_horizon_years = 2
        /\ history[i].result.value.probability_affordable.num = 1
        /\ history[j].result.value.probability_affordable.num = 1

\* the step that starts a renting trial
RentTrialStarts == pc = "rent_trial" /\ pc' \in {"rent_year", "rent_end"}

\* the step that starts a buying trial, up to the entry gate and the rate draw
BuyTrialStarts ==
    /\ pc = "buy_trial"
    /\ sim < num_simulations
    /\ pc' \in {"buy_trial", "buy_year", "buy_final"}
    /\ rng' # rng

\* C14: at the start of every trial income, rent or home value, loan balance,
\* cumulative cost and months-solvent are set from the household, the scenario
\* and the trial's own draws; nothing an earlier trial wrote is read.
C14_TrialStateReinitialised ==
    [][/\ RentTrialStarts =>
              /\ loc'.rent = household.current_monthly_rent
              /\ loc'.income = household.annual_income
              /\ loc'.total_cost = 0
              /\ loc'.months_affordable = 0
       /\ BuyTrialStarts =>
              LET params == scenarios[call.scenario]
                  region_adj == RegionAdj(household.region)
                  home_price == HomePrice(params, region_adj, Draw(rng, 1))
                  down_payment == DownPayment(params, home_price)
                  closing_costs == ClosingCosts(params, home_price)
              IN  IF household.savings < down_payment + closing_costs
                  THEN /\ loc'.state = "FailedEntry"
                       /\ sim' = sim + 1
                       /\ arr'.months_solvent[sim'] = 0
                       /\ arr'.total_paid[sim'] = Min(household.savings, closing_costs)
                       /\ arr'.final_equity[sim']
                              = -Min(household.savings, closing_costs)
                  ELSE /\ loc'.state = "Running"
                       /\ loc'.income = household.annual_income
                       /\ loc'.current_home_value = home_price
                       /\ loc'.current_loan_balance = home_price - down_payment
                       /\ loc'.total_costs = down_payment + closing_costs
                       /\ loc'.months_affordable = 0
                       /\ loc'.interest_rate
                              = InterestRate(params, household.credit_score,
                                             Draw(rng, 2))]_vars

\* C14 witness: the second buying trial has just started, with the counters at
\* their initial values, after a first trial that paid some months and defaulted
C14_Witness ==
    /\ pc = "buy_year"
    /\ loc.year = 0
    /\ sim = 1
    /\ arr.default_occurred = <<TRUE>>
    /\ arr.months_solvent[1] > 0
    /\ arr.total_paid[1] > loc.total_costs
    /\ loc.state = "Running"
    /\ loc.months_affordable = 0
    /\ loc.income = household.annual_income

\* the simulate_renting records the last call returned
ReturnedRenting ==
    IF history = <<>> \/ result.status # "ok" THEN {}
    ELSE IF LastCall.op = "simulate_household" /\ LastCall.scenario = KeepRenting
         THEN {result.value}
    ELSE IF LastCall.op = "compare_scenarios"
         THEN {result.value[KeepRenting]}
    ELSE {}

\* C15: every equity statistic of a renting record (mean, median, 5th and 95th
\* percentile) is exactly 0.
C15_RentingEquityZero ==
    \A r \in ReturnedRenting :
        /\ r.scenario = KeepRenting
        /\ r.equity_built.mean = 0
        /\ r.equity_built.median = 0
        /\ r.equity_built.percentile_5 = 0
        /\ r.equity_built.percentile_95 = 0

\* C15 witness: a renting record of two trials over two years with rent paid
C15_Witness ==
    /\ ReturnedOneRenting
    /\ time_horizon_years = 2
    /\ result.value.simulations = 2
    /\ result.value.total_cost_paid.mean > 0
    /\ result.value.final_monthly_cost.mean > household.current_monthly_rent
    /\ result.value.equity_built.mean = 0

\* C16: when savings < down payment + closing costs for the drawn price, the
\* trial ends at once as FailedEntry: default flag set, equity = -min(savings,
\* closing costs), months solvent = 0, total cost = min(savings, closing costs),
\* and the price draw is the only draw of the trial.
C16_FailedEntry ==
    [][BuyTrialStarts =>
        LET params == scenarios[call.scenario]
            home_price == HomePrice(params, RegionAdj(household.region), Draw(rng, 1))
            down_payment == DownPayment(params, home_price)
            closing_costs == ClosingCosts(params, home_price)
        IN  household.savings < down_payment + closing_costs =>
                /\ loc'.state = "FailedEntry"
                /\ pc' = "buy_trial"
                /\ sim' = sim + 1
                /\ Len(arr'.default_occurred) = sim'
                /\ arr'.default_occurred[sim']
                /\ arr'.final_equity[sim'] = -Min(household.savings, closing_costs)
                /\ arr'.months_solvent[sim'] = 0
                /\ arr'.total_paid[sim'] = Min(household.savings, closing_costs)
                /\ draws' = Drawn(draws, "price", 1)
                /\ rng' = Advance(rng, 1)]_vars

\* C16 witness: the second trial has just failed entry, after a first trial that
\* bought: one rate draw for two price draws
C16_Witness ==
    /\ pc = "buy_trial"
    /\ sim = 2
    /\ loc.state = "FailedEntry"
    /\ household.savings > 0
    /\ arr.default_occurred = <<FALSE, TRUE>>
    /\ arr.final_equity[2] = -Min(household.savings, loc.closing_costs)
    /\ arr.total_paid[2] = Min(household.savings, loc.closing_costs)
    /\ draws["price"] = 2
    /\ draws["rate"] = 1

\* the amounts of a buying trial
Finances(l) ==
    <<l.months_affordable, l.total_costs, l.current_loan_balance,
      l.current_home_value, l.income, l.monthly_insurance, l.total_monthly>>

\* C17: Defaulted is terminal: the month whose default draw is below 0.30 and
\* every step of the trial after it add no solvent month, no cost, no
\* amortization, no yearly shock and no further default draw; the trial goes
\* straight to its terminal accounting.
C17_DefaultedIsTerminal ==
    [][/\ (pc = "buy_month" /\ loc'.state = "Defaulted") =>
              /\ pc' = "buy_final"
              /\ Finances(loc') = Finances(loc)
              /\ draws' = Drawn(draws, "default", 1)
       /\ (loc.state = "Defaulted" /\ pc \in {"buy_year", "buy_month", "buy_final"}) =>
              /\ pc = "buy_final"
              /\ pc' = "buy_trial"
              /\ sim' = sim + 1
              /\ Finances(loc') = Finances(loc)
              /\ draws' = draws
              /\ rng' = rng
              /\ arr'.default_occurred[sim']
              /\ arr'.months_solvent[sim'] = loc.months_affordable
              /\ arr'.total_paid[sim'] = loc.total_costs]_vars

\* C17 witness: a trial defaulted in its first year of two, before the last
\* month of that year
C17_Witness ==
    /\ pc = "buy_final"
    /\ loc.state = "Defaulted"
    /\ time_horizon_years = 2
    /\ loc.year = 0
    /\ loc.month < 11
    /\ draws["default"] >= 1

\* the current month of the buying trial is unaffordable
UnaffordableMonth ==
    /\ pc = "buy_month"
    /\ ~HousingAffordable(loc.total_monthly, loc.income, Self.affordability_threshold)

\* the loop position after a month that does not end the trial
ProceedsToNextMonth ==
    IF loc.month < 11
    THEN pc' = "buy_month" /\ loc'.month = loc.month + 1 /\ loc'.year = loc.year
    ELSE /\ loc'.year = loc.year + 1
         /\ pc' = IF loc.year + 1 < time_horizon_years THEN "buy_year" ELSE "buy_final"

\* C18: a month whose housing ratio exceeds the threshold and whose default draw
\* is >= 0.30 leaves months-solvent, cumulative cost, loan balance, home value,
\* income and the default flag unchanged, and the trial proceeds to the next
\* month or year.
C18_SkippedMonthChangesNothing ==
    [][(UnaffordableMonth /\ ~DefaultDraw(Draw(rng, 1))) =>
          /\ Finances(loc') = Finances(loc)
          /\ loc'.state = "Running"
          /\ arr' = arr
          /\ sim' = sim
          /\ draws' = Drawn(draws, "default", 1)
          /\ ProceedsToNextMonth]_vars

\* C18 witness: the first trial, past the gate, has skipped every month of its
\* first year so far
C18_Witness ==
    /\ pc = "buy_month"
    /\ sim = 0
    /\ loc.state = "Running"
    /\ loc.year = 0
    /\ loc.month >= 2
    /\ draws["default"] = loc.month
    /\ loc.months_affordable = 0
    /\ loc.total_costs = loc.down_payment + loc.closing_costs
    /\ loc.current_loan_balance = loc.loan_amount

\* the current month of the buying trial is affordable
AffordableMonth ==
    /\ pc = "buy_month"
    /\ HousingAffordable(loc.total_monthly, loc.income, Self.affordability_threshold)

\* C19: every month whose housing ratio is <= the threshold increments
\* months-solvent by exactly 1, adds the year's total monthly cost to the
\* cumulative cost and reduces the loan balance by (monthly payment - balance *
\* rate / 12); the monthly payment never changes during the trial.
C19_AffordableMonthPays ==
    [][/\ AffordableMonth =>
              LET interest_payment ==
                      FxMul(loc.current_loan_balance, MonthlyRate(loc.interest_rate))
              IN  /\ loc'.months_affordable = loc.months_affordable + 1
                  /\ loc'.total_costs = loc.total_costs + loc.total_monthly
                  /\ loc'.current_loan_balance
                         = loc.current_loan_balance
                           - (loc.monthly_mortgage - interest_payment)
                  /\ loc'.state = "Running"
                  /\ draws' = draws
                  /\ ProceedsToNextMonth
       /\ pc \in {"buy_year", "buy_month", "buy_final"} =>
              /\ loc'.monthly_mortgage = loc.monthly_mortgage
              /\ loc'.interest_rate = loc.interest_rate]_vars

\* C19 witness: in its second year the trial has paid every month so far, at a
\* monthly cost other than the first year's
C19_Witness ==
    /\ pc = "buy_month"
    /\ loc.state = "Running"
    /\ loc.year = 1
    /\ loc.month >= 1
    /\ loc.months_affordable = 12 + loc.month
    /\ loc.current_loan_balance < loc.loan_amount
    /\ loc.monthly_mortgage > 0
    /\ loc.total_costs > loc.down_payment + loc.closing_costs + 12 * loc.monthly_mortgage
    /\ draws["default"] = 0

\* C20: terminal accounting of a trial that passed the entry gate: final equity
\* is -(down payment + closing costs + 0.2 * cumulative cost so far) if the trial
\* defaulted, else current home value - max(0, remaining loan balance).
C20_TerminalAccounting ==
    [][pc = "buy_final" =>
          /\ sim' = sim + 1
          /\ arr'.default_occurred[sim'] = (loc.state = "Defaulted")
          /\ arr'.final_equity[sim']
                 = IF loc.state = "Defaulted"
                   THEN -(loc.down_payment + loc.closing_costs + loc.total_costs \div 5)
                   ELSE loc.current_home_value
                        - (IF loc.current_loan_balance > 0
                           THEN loc.current_loan_balance ELSE 0)
          /\ arr'.total_paid[sim'] = loc.total_costs
          /\ arr'.months_solvent[sim'] = loc.months_affordable]_vars

\* C20 witness: of two trials over two years the first paid some months and then
\* defaulted, the second kept its home
C20_Witness ==
    /\ pc = "buy_trial"
    /\ sim = 2
    /\ time_horizon_years = 2
    /\ loc.state = "HorizonCompleted"
    /\ arr.default_occurred = <<TRUE, FALSE>>
    /\ arr.months_solvent[1] > 0
    /\ arr.final_equity[1] < -(arr.total_paid[1] \div 5)
    /\ arr.final_equity[2] > 0

\* the amounts of a renting trial
RentFinances(l) == <<l.rent, l.income, l.total_cost, l.months_affordable>>

\* a year of a renting trial has been simulated and its ratio compared
RentYearDone == pc = "rent_year" /\ pc' \in {"rent_year", "rent_end"}

\* C21: in a renting trial the first year whose rent-to-income ratio exceeds 0.35
\* is terminal: no later year is simulated and rent, income, cumulative cost and
\* months-solvent stay as they are; every year before it added exactly 12 months
\* and rent * 12 of cost.
C21_RentingUnaffordableIsTerminal ==
    [][/\ (RentYearDone /\ ~RentAffordable(loc'.rent, loc'.income)) =>
              /\ loc'.state = "BecameUnaffordable"
              /\ pc' = "rent_end"
       /\ (RentYearDone /\ RentAffordable(loc'.rent, loc'.income)) =>
              /\ loc'.state # "BecameUnaffordable"
              /\ loc'.months_affordable = loc.months_affordable + 12
              /\ loc'.total_cost = loc.total_cost + loc'.rent * 12
       /\ (loc.state = "BecameUnaffordable" /\ pc \in {"rent_year", "rent_end"}) =>
              /\ pc = "rent_end"
              /\ pc' = "rent_trial"
              /\ sim' = sim + 1
              /\ RentFinances(loc') = RentFinances(loc)
              /\ draws' = draws
              /\ rng' = rng
              /\ arr'.final_rent[sim'] = loc.rent
              /\ arr'.total_paid[sim'] = loc.total_cost
              /\ arr'.affordability_months[sim'] = loc.months_affordable]_vars

\* C21 witness: rent became unaffordable in the first of two years
C21_Witness ==
    /\ pc = "rent_end"
    /\ loc.state = "BecameUnaffordable"
    /\ time_horizon_years = 2
    /\ loc.year = 1
    /\ household.annual_income > 0
    /\ draws["rent"] = sim + 1

\* C22: in the timeline a trial that fails the entry gate records the same
\* values at every year 0..H: equity -min(savings, closing costs), monthly cost 0
\* and cumulative cost min(savings, closing costs).
C22_FailedEntryRowIsFlat ==
    (InTimeline /\ loc.state = "FailedEntry") =>
        LET lost == Min(household.savings, loc.closing_costs)
        IN  /\ Len(CurrentRow(arr.yearly_equity)) = time_horizon_years + 1
            /\ Len(CurrentRow(arr.yearly_costs)) = time_horizon_years + 1
            /\ Len(CurrentRow(arr.yearly_total_paid)) = time_horizon_years + 1
            /\ \A y \in 1..(time_horizon_years + 1) :
                   /\ CurrentRow(arr.yearly_equity)[y] = -lost
                   /\ CurrentRow(arr.yearly_costs)[y] = 0
                   /\ CurrentRow(arr.yearly_total_paid)[y] = lost

\* C22 witness: a failed entry over two years that lost part of the savings
C22_Witness ==
    /\ InTimeline
    /\ loc.state = "FailedEntry"
    /\ time_horizon_years = 2
    /\ household.savings > 0
    /\ CurrentRow(arr.yearly_equity)[3] < 0
    /\ CurrentRow(arr.yearly_total_paid)[3] > 0

\* a year of a timeline trial is simulated
TimelineYear == pc \in {"tl_rent_year", "tl_buy_year"}

\* C23: the timeline has no default and no affordability cutoff: every renting
\* trial and every trial that passes the entry gate is simulated for all H years,
\* each year applies 12 payments and 12 months of cost whatever the
\* cost-to-income ratio is, and no default draw is made.
C23_TimelineRunsEveryYear ==
    [][/\ InTimeline => draws["default"] = 0 /\ draws'["default"] = 0
       /\ TimelineYear =>
              /\ loc.state = "Running"
              /\ loc.year < time_horizon_years
              /\ loc'.year = loc.year + 1
              /\ Len(CurrentRow(arr'.yearly_total_paid)) = loc'.year + 1
              /\ CurrentRow(arr'.yearly_total_paid)[loc'.year + 1] = loc'.cumulative_cost
              /\ pc' = IF loc'.year = time_horizon_years THEN "tl_trial" ELSE pc
              /\ sim' = IF loc'.year = time_horizon_years THEN sim + 1 ELSE sim
       /\ pc = "tl_rent_year" =>
              loc'.cumulative_cost = loc.cumulative_cost + 12 * loc'.rent
       /\ pc = "tl_buy_year" =>
              /\ loc'.cumulative_cost = loc.cumulative_cost + 12 * loc'.total_monthly
              /\ loc'.current_loan_balance =
                     AmortizeMonths(loc.current_loan_balance, loc.monthly_mortgage,
                                    loc.interest_rate, 12)
       /\ (pc = "tl_trial" /\ pc' = "tl_trial" /\ loc'.state # "FailedEntry") =>
              time_horizon_years = 0]_vars

\* C23 witness: a purchase in the timeline whose first year cost more than the
\* affordability threshold allows, with the second year still to be simulated
C23_Witness ==
    /\ pc = "tl_buy_year"
    /\ loc.year = 1
    /\ time_horizon_years = 2
    /\ ~HousingAffordable(loc.total_monthly, loc.income, Self.affordability_threshold)
    /\ CurrentRow(arr.yearly_total_paid)[2]
           = CurrentRow(arr.yearly_total_paid)[1] + 12 * loc.total_monthly

\* a trial that passed the entry gate is in progress
Purchased == pc \in {"buy_year", "buy_month", "buy_final", "tl_buy_year"}

\* credit scores over the range 550..850 a household may have
CreditScores == {550, 600, 650, 700, 750, 780, 800, 850}

\* C24: for every credit score in 550..850 and every rate draw the mortgage rate
\* of a trial that passed the entry gate lies in [0.03, 0.10], so the monthly
\* rate is strictly positive and the payment is the level payment, not the
\* fallback loan_amount / 360.
C24_RateClippedAndLevelPayment ==
    Purchased =>
        /\ loc.interest_rate >= 300
        /\ loc.interest_rate <= 1000
        /\ MonthlyRate(loc.interest_rate) > 0
        /\ loc.monthly_mortgage > loc.loan_amount \div (30 * 12)
        /\ \A credit_score \in CreditScores, u \in 0..(Levels - 1) :
               LET interest_rate ==
                       InterestRate(scenarios[call.scenario], credit_score, u)
               IN  /\ interest_rate >= 300
                   /\ interest_rate <= 1000
                   /\ MonthlyRate(interest_rate) > 0

\* C24 witness: a purchase whose rate draw was above 0.10 and is used as 0.10
C24_Witness ==
    /\ Purchased
    /\ loc.interest_rate = 1000
    /\ loc.loan_amount > 0
    /\ loc.monthly_mortgage > 0

\* trial i of the buying run in progress is counted as affordable and as default
CountedTwice(i) ==
    /\ arr.months_solvent[i] = time_horizon_years * 12
    /\ arr.default_occurred[i]

\* the two fractions of a buying record add up to no more than one
AffordablePlusDefaultAtMostOne(r) ==
    /\ r.probability_affordable.den = r.simulations
    /\ r.probability_default.den = r.simulations
    /\ r.probability_affordable.num + r.probability_default.num <= r.simulations

\* C25: in every buying run, for every horizon H >= 0, no trial is
\* counted both as affordable (months-solvent = H * 12) and as defaulted, so
\* probability_affordable + probability_default <= 1.
C25_AffordableAndDefaultDisjoint ==
    /\ InBuying => \A i \in DOMAIN arr.months_solvent : ~CountedTwice(i)
    /\ \A r \in ReturnedBuying : AffordablePlusDefaultAtMostOne(r)

\* with a horizon of at least one year the two counts are disjoint: a trial that
\* fails the entry gate has 0 < H * 12 solvent months and a trial that defaults
\* does so in a month that is not counted
DisjointForPositiveHorizon ==
    /\ (InBuying /\ time_horizon_years >= 1)
           => \A i \in DOMAIN arr.months_solvent : ~CountedTwice(i)
    /\ \A r \in ReturnedBuying :
           r.time_horizon_years >= 1 => AffordablePlusDefaultAtMostOne(r)

\* every default-flagged trial of the buying run in progress has negative equity
DefaultsHaveNegativeEquity ==
    \A i \in DOMAIN arr.default_occurred :
        arr.default_occurred[i] => arr.final_equity[i] < 0

\* the record counts at least as many negative-equity trials as defaults
NegativeEquityAtLeastDefault(r) ==
    /\ r.probability_negative_equity.den = r.probability_default.den
    /\ r.probability_negative_equity.num >= r.probability_default.num

\* C26 (as claimed): in every buying run for a household with non-negative
\* savings every default-flagged trial (FailedEntry or Defaulted) has strictly
\* negative final equity, so probability_negative_equity >= probability_default.
C26_DefaultImpliesNegativeEquity ==
    household.savings >= 0 =>
        /\ InBuying => DefaultsHaveNegativeEquity
        /\ \A r \in ReturnedBuying : NegativeEquityAtLeastDefault(r)

\* C26 (amended): in every buying run for a household with strictly positive
\* savings every default-flagged trial has strictly negative final equity, so
\* probability_negative_equity >= probability_default; a household with savings
\* 0 fails the entry gate with final equity -min(0, closing costs) = 0.
C26_DefaultImpliesNegativeEquityAmended ==
    /\ household.savings > 0 =>
           /\ InBuying => DefaultsHaveNegativeEquity
           /\ \A r \in ReturnedBuying : NegativeEquityAtLeastDefault(r)
    /\ (household.savings = 0 /\ InBuying) =>
           \A i \in DOMAIN arr.default_occurred :
               arr.default_occurred[i] /\ arr.final_equity[i] = 0

\* C26 witness: two trials of a household with savings, the first failed the
\* entry gate and the second defaulted
C26_Witness ==
    /\ pc = "buy_trial"
    /\ sim = 2
    /\ household.savings > 0
    /\ arr.default_occurred = <<TRUE, TRUE>>
    /\ arr.months_solvent[1] = 0
    /\ arr.monthly_costs[1] = 0
    /\ loc.state = "Defaulted"
    /\ arr.final_equity[1] < 0
    /\ arr.final_equity[2] < arr.final_equity[1]

\* the affordability verdict of the year the locals describe
VerdictOf(l) == HousingAffordable(l.total_monthly, l.income, Self.affordability_threshold)

\* months-solvent is 12 for each of some k of the `years` completed years, plus
\* `extra` months of the year in progress
TwelvePerYear(months, years, extra) ==
    \E k \in 0..years : months = 12 * k + extra

\* C27: in a buying trial the affordability verdict is constant within a year,
\* and an unaffordable year that does not default does not end the trial: each
\* completed year of a non-defaulted trial adds 12 solvent months if its housing
\* ratio is <= the threshold and none otherwise, the year after it is simulated
\* all the same, and the trial is recorded with that count and no default flag.
C27_TwelveMonthsPerAffordableYear ==
    [][/\ (pc = "buy_month" /\ loc.state = "Running") =>
              TwelvePerYear(loc.months_affordable, loc.year,
                            IF VerdictOf(loc) THEN loc.month ELSE 0)
       /\ (pc \in {"buy_year", "buy_final"} /\ loc.state = "Running") =>
              TwelvePerYear(loc.months_affordable, loc.year, 0)
       /\ (pc = "buy_month" /\ pc' = "buy_month") =>
              /\ loc'.year = loc.year
              /\ loc'.total_monthly = loc.total_monthly
              /\ loc'.income = loc.income
              /\ VerdictOf(loc') = VerdictOf(loc)
       /\ (pc = "buy_month" /\ loc.month = 11 /\ loc'.state # "Defaulted") =>
              /\ loc'.months_affordable
                     = IF VerdictOf(loc) THEN loc.months_affordable - 11 + 12
                       ELSE loc.months_affordable
              /\ loc'.year = loc.year + 1
              /\ pc' = IF loc.year + 1 < time_horizon_years
                       THEN "buy_year" ELSE "buy_final"
       /\ (pc = "buy_final" /\ loc.state # "Defaulted") =>
              /\ loc.year = time_horizon_years
              /\ arr'.months_solvent[sim'] = loc.months_affordable
              /\ ~arr'.default_occurred[sim']]_vars

\* C27 witness: the first year was above the threshold and none of its twelve
\* default draws was below 0.30; the second year is affordable and counts again,
\* so the trial will end with 12 of 24 months and no default
C27_Witness ==
    /\ pc = "buy_month"
    /\ loc.state = "Running"
    /\ time_horizon_years = 2
    /\ loc.year = 1
    /\ VerdictOf(loc)
    /\ loc.month = 11
    /\ loc.months_affordable = 11
    /\ draws["default"] >= 12

\* the renting call is inside its trial loop
InRenting == pc \in {"rent_trial", "rent_year", "rent_end"}

\* C28: in a renting trial the year in which rent becomes unaffordable adds no
\* solvent month and no cost: the month loop of that year tests the ratio that
\* has just failed and stops at its first month. Months-solvent is therefore a
\* multiple of 12 in 0..H * 12, 12 for each year before the unaffordable one,
\* and the cumulative cost grows only by rent * 12 in an affordable year.
C28_NoPartialYear ==
    [][/\ (RentYearDone /\ loc'.state = "BecameUnaffordable") =>
              /\ AffordableMonthsThisYear(loc'.rent, loc'.income, 0) = 0
              /\ loc'.months_affordable = loc.months_affordable
              /\ loc'.total_cost = loc.total_cost
              /\ loc'.months_affordable = 12 * loc.year
       /\ (pc \in {"rent_year", "rent_end"}) =>
              /\ loc.months_affordable
                     = 12 * (IF loc.state = "BecameUnaffordable"
                             THEN loc.year - 1 ELSE loc.year)
              /\ loc.total_cost % 12 = 0
              /\ (loc.months_affordable = 0) => (loc.total_cost = 0)
       /\ InRenting =>
              \A i \in DOMAIN arr.affordability_months :
                  /\ arr.affordability_months[i] % 12 = 0
                  /\ arr.affordability_months[i] >= 0
                  /\ arr.affordability_months[i] <= time_horizon_years * 12
                  /\ arr.total_paid[i] % 12 = 0]_vars

\* C28 witness: rent became unaffordable in the second year, after one year of
\* 12 months was paid
C28_Witness ==
    /\ pc = "rent_end"
    /\ loc.state = "BecameUnaffordable"
    /\ loc.year = 2
    /\ loc.months_affordable = 12
    /\ loc.total_cost > 12 * household.current_monthly_rent
    /\ ~RentAffordable(loc.rent, loc.income)

\* a trial of simulate_buying that passed the entry gate is in progress
InPurchase == pc \in {"buy_year", "buy_month", "buy_final"}

\* what a step of a purchase does to the loan balance: an affordable month pays
\* principal, every other step leaves the balance alone, and it never exceeds
\* the amount borrowed
BalanceSteps ==
    /\ AffordableMonth =>
           /\ loc.monthly_mortgage
                  > FxMul(loc.current_loan_balance, MonthlyRate(loc.interest_rate))
           /\ loc'.current_loan_balance < loc.current_loan_balance
    /\ (InPurchase /\ ~AffordableMonth) =>
           loc'.current_loan_balance = loc.current_loan_balance
    /\ InPurchase => loc.current_loan_balance <= loc.loan_amount

\* C29 (as claimed): in a buying trial with horizon <= 30 years the loan balance
\* never increases: it strictly decreases in every affordable month, is
\* unchanged in every unaffordable month, and stays >= 0 and <= the initial loan
\* amount throughout.
C29_BalanceNeverIncreases ==
    [][/\ BalanceSteps
       /\ InPurchase => loc.current_loan_balance >= 0]_vars

\* C29 (amended): in a buying trial with horizon <= 30 years the loan balance
\* strictly decreases in every affordable month, is unchanged in every
\* unaffordable month and never exceeds the initial loan amount; it stays > 0
\* as long as fewer than 360 payments were made, and the 360th payment leaves a
\* remainder of less than one payment that the rounding of the payment and of
\* the interest can put on either side of zero.
C29_BalanceNeverIncreasesAmended ==
    [][/\ BalanceSteps
       /\ (InPurchase /\ loc.months_affordable < 12 * MortgageYears) =>
              loc.current_loan_balance > 0
       /\ (InPurchase /\ loc.months_affordable = 12 * MortgageYears) =>
              /\ loc.current_loan_balance < loc.monthly_mortgage
              /\ loc.current_loan_balance > -loc.monthly_mortgage]_vars

\* C29 witness: every month of 30 years was affordable and the 360th payment
\* is made
C29_Witness ==
    /\ pc = "buy_final"
    /\ loc.state = "Running"
    /\ time_horizon_years = MortgageYears
    /\ loc.months_affordable = 12 * MortgageYears
    /\ loc.current_loan_balance < loc.monthly_mortgage

\* the 360th payment has left a balance below zero
OverpaidAtTerm ==
    /\ C29_Witness
    /\ loc.current_loan_balance < 0

\* the 360th payment has left a balance above zero
UnderpaidAtTerm ==
    /\ C29_Witness
    /\ loc.current_loan_balance > 0

\* call i of the history is the first call made on its simulator
FirstCallOf(i) == \A k \in 1..(i - 1) : history[k].self # history[i].self

\* the call in progress is the first on its simulator and has drawn nothing yet
FirstCallBegins ==
    /\ pc # "idle"
    /\ \A k \in DOMAIN history : history[k].self # call.self
    /\ call.comparison = <<>>
    /\ draws = NoDraws

\* C30: a simulator's random stream is isolated from other objects: whatever is
\* constructed or run between a simulator's construction and its first simulate
\* call, the call starts from the stream its own seed defines, so the first
\* calls of two simulators with the same seed and config, made with the same
\* arguments, return the same record.
C30_StreamIsolated ==
    /\ FirstCallBegins => rng = SeedState(Self.random_seed)
    /\ \A i, j \in DOMAIN history :
           (/\ FirstCallOf(i)
            /\ FirstCallOf(j)
            /\ history[i].op = history[j].op
            /\ history[i].scenario = history[j].scenario
            /\ SameSimulator(i, j))
           => history[i].result = history[j].result

\* with nothing constructed or run in between, the first calls of simulators
\* with the same seed and config do return the same record
FreshFirstCallsAgree ==
    \A i, j \in DOMAIN history :
        (/\ history[i].fresh
         /\ history[j].fresh
         /\ history[i].op = history[j].op
         /\ history[i].scenario = history[j].scenario
         /\ SameSimulator(i, j))
        => history[i].result = history[j].result

====
